---- MODULE Spec2Model ----
(***************************************************************************)
(* FitBois 2.0 consistency progression engine.                             *)
(*                                                                         *)
(* The engine (src/src/utils/consistencyCalculator.ts, the chronological   *)
(* replay, lines 206-497) derives a participant's level, clean and missed  *)
(* weeks, points and elimination from the workout history.  The            *)
(* orchestrator updateAllUsersConsistency is driven from App.tsx           *)
(* (recalculateUserConsistency).                                           *)
(***************************************************************************)
EXTENDS Integers, Sequences, FiniteSets, TLC

VARIABLES users, workoutDays, goals, currentWeek, recalculated
\* the snapshot sink: the users table, the PUT requests in flight, the
\* participants whose failed save was logged, the pending setTimeout callbacks
\* with the render state they closed over
VARIABLES dbUsers, puts, reported, timers
\* the workout store: the workout_days table, the POST requests being served
\* and the values of the last write applied per (userId, week, dayOfWeek)
VARIABLES rows, posts, lastWritten
\* ApiService and the resource behind it: the server's data version, the
\* cache entry and the pending GET of the resource, the mutation in flight,
\* the version of the last completed mutation, the last answer to a GET
VARIABLES serverData, cache, pendingGet, mutation, completedVersion, answer

sinkVars == <<dbUsers, puts, reported, timers>>
storeVars == <<rows, posts, lastWritten>>
apiVars == <<serverData, cache, pendingGet, mutation, completedVersion, answer>>
vars == <<users, workoutDays, goals, currentWeek, recalculated,
          sinkVars, storeVars, apiVars>>

\* ---------------------------------------------------------------- bounds
\* last calendar week the model advances to
MaxWeek == 6

\* last calendar week where goals are followed as well
ShortWeek == 4

\* last calendar week for participants that start at level 5
LongWeek == 7

\* last calendar week for two participants side by side
PairWeek == 3
SinkWeek == 4
MaxTimers == 1
MaxPuts == 1
BatchWeek == 2
FairWeek == 3
MaxVersion == 2

\* ------------------------------------------------------------ the domain
UserIds == {"u1"}

GoalIds == {"g1"}

\* two participants of the same challenge
PairIds == {"u1", "u2"}
ToggleDays == {5}
SinkCounts == {4, 5}

\* User.currentConsistencyLevel : 3 | 4 | 5
Levels == {3, 4, 5}

\* User.specialRules?.startingLevel ; 0 stands for an absent (falsy) value
StartingLevels == {0, 3, 4, 5}

\* completed workouts a participant logs in one week
Counts == {0, 3, 4, 5}

Min(a, b) == IF a <= b THEN a ELSE b

\* -------------------------------------------------------------- types.ts
\* variant: the level itself is the requirement
getRequiredWorkouts_Identity(level) ==
    level

getRequiredWorkouts(level) ==
    IF level <= 4 THEN 4 ELSE level

\* ------------------------------------------------- consistencyCalculator
\* user.specialRules?.startingLevel || 5
StartingLevelOf(user) ==
    IF user.startingLevel = 0 THEN 5 ELSE user.startingLevel

\* variant: the records are taken to be sorted by week, the scan stops at the
\* first record of a later week
countCompletedWorkouts_SortedInput(userId, wds, week) ==
    LET later == {i \in DOMAIN wds : wds[i].week > week}
        stop  == IF later = {} THEN Len(wds) + 1
                 ELSE CHOOSE i \in later : \A j \in later : i <= j
    IN  Len(SelectSeq(SubSeq(wds, 1, stop - 1),
                      LAMBDA w : w.userId = userId /\ w.week = week /\ w.isCompleted))

\* variant: the records of every participant are counted
countCompletedWorkouts_AnyUser(userId, wds, week) ==
    Len(SelectSeq(wds, LAMBDA w : w.week = week /\ w.isCompleted))

countCompletedWorkouts(userId, wds, week) ==
    Len(SelectSeq(wds, LAMBDA w : w.userId = userId /\ w.week = week /\ w.isCompleted))

\* variant: the stored level is the requirement, the override is ignored
calculateWeekStatus_StoredLevel(user, wds, week, requiredWorkoutsOverride) ==
    LET completedWorkouts == countCompletedWorkouts(user.id, wds, week)
        requiredWorkouts  == user.currentConsistencyLevel
    IN  [week              |-> week,
         isComplete        |-> completedWorkouts >= requiredWorkouts,
         completedWorkouts |-> completedWorkouts,
         requiredWorkouts  |-> requiredWorkouts]

\* variant: a week is complete when exactly the required number is logged
calculateWeekStatus_ExactCount(user, wds, week, requiredWorkoutsOverride) ==
    LET completedWorkouts == countCompletedWorkouts(user.id, wds, week)
        requiredWorkouts  == IF requiredWorkoutsOverride = {}
                             THEN user.currentConsistencyLevel
                             ELSE CHOOSE n \in requiredWorkoutsOverride : TRUE
    IN  [week              |-> week,
         isComplete        |-> completedWorkouts = requiredWorkouts,
         completedWorkouts |-> completedWorkouts,
         requiredWorkouts  |-> requiredWorkouts]

\* requiredWorkoutsOverride is optional: {} when absent, {n} when given
calculateWeekStatus(user, wds, week, requiredWorkoutsOverride) ==
    LET completedWorkouts == countCompletedWorkouts(user.id, wds, week)
        requiredWorkouts  == IF requiredWorkoutsOverride = {}
                             THEN user.currentConsistencyLevel
                             ELSE CHOOSE n \in requiredWorkoutsOverride : TRUE
    IN  [week              |-> week,
         isComplete        |-> completedWorkouts >= requiredWorkouts,
         completedWorkouts |-> completedWorkouts,
         requiredWorkouts  |-> requiredWorkouts]

\* the requirement the replay applies to a week at simulatedLevel
RequiredAt(simulatedLevel) == simulatedLevel

\* variant: a progression keeps the streak running
ProgressionStep_NoStreakReset(s, isClean, startingLevel) ==
    IF isClean
    THEN IF s.consecutiveClean + 1 >= 3 /\ s.simulatedLevel > 3
         THEN [simulatedLevel |-> s.simulatedLevel - 1,
               consecutiveClean |-> s.consecutiveClean + 1]
         ELSE [simulatedLevel |-> s.simulatedLevel,
               consecutiveClean |-> s.consecutiveClean + 1]
    ELSE [simulatedLevel   |-> IF s.simulatedLevel < 5
                               THEN Min(s.simulatedLevel + 1, startingLevel)
                               ELSE s.simulatedLevel,
          consecutiveClean |-> 0]

\* variant: a regression is not capped by the starting level
ProgressionStep_NoClamp(s, isClean, startingLevel) ==
    IF isClean
    THEN IF s.consecutiveClean + 1 >= 3 /\ s.simulatedLevel > 3
         THEN [simulatedLevel |-> s.simulatedLevel - 1, consecutiveClean |-> 0]
         ELSE [simulatedLevel |-> s.simulatedLevel,
               consecutiveClean |-> s.consecutiveClean + 1]
    ELSE [simulatedLevel   |-> IF s.simulatedLevel < 5
                               THEN s.simulatedLevel + 1
                               ELSE s.simulatedLevel,
          consecutiveClean |-> 0]

\* variant: a progression is not stopped at level 3
ProgressionStep_NoFloor(s, isClean, startingLevel) ==
    IF isClean
    THEN IF s.consecutiveClean + 1 >= 3
         THEN [simulatedLevel |-> s.simulatedLevel - 1, consecutiveClean |-> 0]
         ELSE [simulatedLevel |-> s.simulatedLevel,
               consecutiveClean |-> s.consecutiveClean + 1]
    ELSE [simulatedLevel   |-> IF s.simulatedLevel < 5
                               THEN Min(s.simulatedLevel + 1, startingLevel)
                               ELSE s.simulatedLevel,
          consecutiveClean |-> 0]

\* variant: only the progression from level 5 is made
ProgressionStep_SingleStep(s, isClean, startingLevel) ==
    IF isClean
    THEN IF s.consecutiveClean + 1 >= 3 /\ s.simulatedLevel > 4
         THEN [simulatedLevel |-> s.simulatedLevel - 1, consecutiveClean |-> 0]
         ELSE [simulatedLevel |-> s.simulatedLevel,
               consecutiveClean |-> s.consecutiveClean + 1]
    ELSE [simulatedLevel   |-> IF s.simulatedLevel < 5
                               THEN Min(s.simulatedLevel + 1, startingLevel)
                               ELSE s.simulatedLevel,
          consecutiveClean |-> 0]

\* one iteration of the replay loop: s is [simulatedLevel, consecutiveClean]
ProgressionStep(s, isClean, startingLevel) ==
    IF isClean
    THEN IF s.consecutiveClean + 1 >= 3 /\ s.simulatedLevel > 3
         THEN [simulatedLevel |-> s.simulatedLevel - 1, consecutiveClean |-> 0]
         ELSE [simulatedLevel |-> s.simulatedLevel,
               consecutiveClean |-> s.consecutiveClean + 1]
    ELSE [simulatedLevel   |-> IF s.simulatedLevel < 5
                               THEN Min(s.simulatedLevel + 1, startingLevel)
                               ELSE s.simulatedLevel,
          consecutiveClean |-> 0]

\* loop state of calculateAllWeekStatuses after the first n weeks
RECURSIVE AllWeekStatusesLoop(_, _, _)
AllWeekStatusesLoop(user, wds, n) ==
    IF n <= 0
    THEN [simulatedLevel |-> StartingLevelOf(user), consecutiveClean |-> 0,
          weekStatuses |-> <<>>]
    ELSE LET p        == AllWeekStatusesLoop(user, wds, n - 1)
             required == RequiredAt(p.simulatedLevel)
             status   == calculateWeekStatus(user, wds, n, {required})
             q        == ProgressionStep(p, status.isComplete, StartingLevelOf(user))
         IN  [simulatedLevel   |-> q.simulatedLevel,
              consecutiveClean |-> q.consecutiveClean,
              weekStatuses     |-> Append(p.weekStatuses, status)]

\* variant: the week in progress is evaluated as well
calculateAllWeekStatuses_CountsCurrentWeek(user, wds, cw) ==
    LET completedWeeks == cw
    IN  IF completedWeeks <= 0 THEN <<>>
        ELSE AllWeekStatusesLoop(user, wds, completedWeeks).weekStatuses

calculateAllWeekStatuses(user, wds, cw) ==
    LET completedWeeks == cw - 1
    IN  IF completedWeeks <= 0 THEN <<>>
        ELSE AllWeekStatusesLoop(user, wds, completedWeeks).weekStatuses

RECURSIVE CountStatuses(_, _)
CountStatuses(weekStatuses, complete) ==
    IF weekStatuses = <<>> THEN 0
    ELSE (IF Head(weekStatuses).isComplete = complete THEN 1 ELSE 0)
         + CountStatuses(Tail(weekStatuses), complete)

\* variant: a week without any workout is not counted as missed
calculateConsistencyMetrics_SkipsEmptyWeeks(user, wds, cw) ==
    LET weekStatuses == calculateAllWeekStatuses(user, wds, cw)
        logged       == SelectSeq(weekStatuses, LAMBDA t : t.completedWorkouts > 0)
    IN  [cleanWeeks  |-> CountStatuses(weekStatuses, TRUE),
         missedWeeks |-> CountStatuses(logged, FALSE)]

calculateConsistencyMetrics(user, wds, cw) ==
    LET weekStatuses == calculateAllWeekStatuses(user, wds, cw)
    IN  [cleanWeeks  |-> CountStatuses(weekStatuses, TRUE),
         missedWeeks |-> CountStatuses(weekStatuses, FALSE)]

\* loop states of simulateProgression: entry n + 1 is the state after n weeks
RECURSIVE SimulationTrace(_, _, _)
SimulationTrace(user, wds, n) ==
    IF n <= 0
    THEN <<[simulatedLevel |-> StartingLevelOf(user), consecutiveClean |-> 0]>>
    ELSE LET tr        == SimulationTrace(user, wds, n - 1)
             p         == tr[n]
             required  == RequiredAt(p.simulatedLevel)
             completed == countCompletedWorkouts(user.id, wds, n)
         IN  Append(tr, ProgressionStep(p, completed >= required, StartingLevelOf(user)))

\* variant: before the first completed week the stored level is returned
simulateProgression_StoredLevel(user, wds, cw) ==
    LET completedWeeks == cw - 1
    IN  IF completedWeeks <= 0 THEN user.currentConsistencyLevel
        ELSE SimulationTrace(user, wds, completedWeeks)[completedWeeks + 1].simulatedLevel

simulateProgression(user, wds, cw) ==
    LET completedWeeks == cw - 1
    IN  IF completedWeeks <= 0 THEN StartingLevelOf(user)
        ELSE SimulationTrace(user, wds, completedWeeks)[completedWeeks + 1].simulatedLevel

\* loop state of simulateProgressionFromStatuses after the first n statuses
RECURSIVE FromStatusesLoop(_, _, _)
FromStatusesLoop(user, weekStatuses, n) ==
    IF n <= 0
    THEN [simulatedLevel |-> StartingLevelOf(user), consecutiveClean |-> 0]
    ELSE LET p        == FromStatusesLoop(user, weekStatuses, n - 1)
             required == RequiredAt(p.simulatedLevel)
             isClean  == weekStatuses[n].completedWorkouts >= required
         IN  ProgressionStep(p, isClean, StartingLevelOf(user))

\* variant: the isComplete flag of the status is trusted
simulateProgressionFromStatuses_Stateless(user, weekStatuses) ==
    IF Len(weekStatuses) = 0 THEN StartingLevelOf(user)
    ELSE IF weekStatuses[Len(weekStatuses)].isComplete
         THEN StartingLevelOf(user)
         ELSE Min(StartingLevelOf(user) + 1, 5)

simulateProgressionFromStatuses(user, weekStatuses) ==
    IF Len(weekStatuses) = 0 THEN StartingLevelOf(user)
    ELSE FromStatusesLoop(user, weekStatuses, Len(weekStatuses)).simulatedLevel

\* workoutDaysArg and currentWeekArg are optional: {} when absent
calculateNewConsistencyLevel(user, weekStatuses, workoutDaysArg, currentWeekArg) ==
    IF workoutDaysArg # {} /\ currentWeekArg # {}
    THEN simulateProgression(user, CHOOSE w \in workoutDaysArg : TRUE,
                             CHOOSE c \in currentWeekArg : TRUE)
    ELSE simulateProgressionFromStatuses(user, weekStatuses)

\* variant: two missed weeks eliminate at any level
shouldBeEliminated_AnyLevel(user, missedWeeks) ==
    missedWeeks >= 2

shouldBeEliminated(user, missedWeeks) ==
    user.currentConsistencyLevel = 5 /\ missedWeeks >= 2

\* variant: the points are the clean weeks alone
calculateConsistencyUpdate_NoGoals(user, wds, cw, completedGoals) ==
    LET m                   == calculateConsistencyMetrics(user, wds, cw)
        newConsistencyLevel == simulateProgression(user, wds, cw)
    IN  [userId              |-> user.id,
         cleanWeeks          |-> m.cleanWeeks,
         missedWeeks         |-> m.missedWeeks,
         newConsistencyLevel |-> newConsistencyLevel,
         levelChanged        |-> newConsistencyLevel # user.currentConsistencyLevel,
         totalPoints         |-> m.cleanWeeks]

calculateConsistencyUpdate(user, wds, cw, completedGoals) ==
    LET m                   == calculateConsistencyMetrics(user, wds, cw)
        newConsistencyLevel == simulateProgression(user, wds, cw)
    IN  [userId              |-> user.id,
         cleanWeeks          |-> m.cleanWeeks,
         missedWeeks         |-> m.missedWeeks,
         newConsistencyLevel |-> newConsistencyLevel,
         levelChanged        |-> newConsistencyLevel # user.currentConsistencyLevel,
         totalPoints         |-> completedGoals + m.cleanWeeks]

CompletedGoalsOf(gs, userId) ==
    Cardinality({g \in gs : g.userId = userId /\ g.isCompleted})

\* the count the orchestrator hands to shouldBeEliminated
EliminationCount(user, wds, gs, cw) ==
    calculateConsistencyUpdate(user, wds, cw, CompletedGoalsOf(gs, user.id)).missedWeeks

\* variant: inactive participants are recalculated like active ones
UpdatedUser_NoInactiveGuard(user, wds, gs, cw) ==
    LET update     == calculateConsistencyUpdate(user, wds, cw,
                                                 CompletedGoalsOf(gs, user.id))
        eliminated == shouldBeEliminated(user, EliminationCount(user, wds, gs, cw))
    IN  [user EXCEPT !.cleanWeeks = update.cleanWeeks,
                     !.missedWeeks = update.missedWeeks,
                     !.currentConsistencyLevel = update.newConsistencyLevel,
                     !.totalPoints = update.totalPoints,
                     !.isActive = ~eliminated]

UpdatedUser(user, wds, gs, cw) ==
    IF ~user.isActive THEN user
    ELSE LET update     == calculateConsistencyUpdate(user, wds, cw,
                                                      CompletedGoalsOf(gs, user.id))
             eliminated == shouldBeEliminated(user, EliminationCount(user, wds, gs, cw))
         IN  [user EXCEPT !.cleanWeeks = update.cleanWeeks,
                          !.missedWeeks = update.missedWeeks,
                          !.currentConsistencyLevel = update.newConsistencyLevel,
                          !.totalPoints = update.totalPoints,
                          !.isActive = ~eliminated]

updateAllUsersConsistency(us, wds, gs, cw) ==
    [u \in DOMAIN us |-> UpdatedUser(us[u], wds, gs, cw)]

\* ------------------------------------------- stint elimination tracker
\* variant: the checkpoint is ignored
StintStep_IgnoreCheckpoint(s, week, completed, ceilingTier, checkpoint) ==
    LET clean == completed >= getRequiredWorkouts(s.tier)
    IN  IF clean
        THEN IF s.streak + 1 >= 3 /\ s.tier > 3
             THEN [tier |-> s.tier - 1, streak |-> 0,
                   stintMissed |-> IF s.tier = 5 THEN 0 ELSE s.stintMissed]
             ELSE [tier |-> s.tier, streak |-> s.streak + 1,
                   stintMissed |-> s.stintMissed]
        ELSE IF s.tier = 5
             THEN [tier |-> 5, streak |-> 0, stintMissed |-> s.stintMissed + 1]
             ELSE LET t == Min(s.tier + 1, ceilingTier)
                  IN  [tier |-> t, streak |-> 0,
                       stintMissed |-> IF t = 5 THEN 0 ELSE s.stintMissed]

\* one week of the stint replay: s is [tier, streak, stintMissed]
StintStep(s, week, completed, ceilingTier, checkpoint) ==
    LET clean == completed >= getRequiredWorkouts(s.tier)
    IN  IF clean
        THEN IF s.streak + 1 >= 3 /\ s.tier > 3
             THEN [tier |-> s.tier - 1, streak |-> 0,
                   stintMissed |-> IF s.tier = 5 THEN 0 ELSE s.stintMissed]
             ELSE [tier |-> s.tier, streak |-> s.streak + 1,
                   stintMissed |-> s.stintMissed]
        ELSE IF s.tier = 5
             THEN [tier |-> 5, streak |-> 0,
                   stintMissed |-> IF week >= checkpoint THEN s.stintMissed + 1
                                   ELSE s.stintMissed]
             ELSE LET t == Min(s.tier + 1, ceilingTier)
                  IN  [tier |-> t, streak |-> 0,
                       stintMissed |-> IF t = 5 THEN 0 ELSE s.stintMissed]

\* states of the stint replay: entry n + 1 is the state after n weeks
RECURSIVE StintTrace(_, _, _)
StintTrace(user, wds, n) ==
    IF n <= 0
    THEN <<[tier |-> StartingLevelOf(user), streak |-> 0, stintMissed |-> 0]>>
    ELSE LET tr == StintTrace(user, wds, n - 1)
         IN  Append(tr, StintStep(tr[n], n, countCompletedWorkouts(user.id, wds, n),
                                  StartingLevelOf(user), user.reactivatedAtWeek))

calculateStintMissedWeeks(user, wds, cw) ==
    LET completedWeeks == cw - 1
    IN  IF completedWeeks <= 0 THEN 0
        ELSE StintTrace(user, wds, completedWeeks)[completedWeeks + 1].stintMissed

\* ------------------------------------------------------------------ state
NewUser(id, startingLevel) ==
    [id |-> id, currentConsistencyLevel |-> IF startingLevel = 0 THEN 5 ELSE startingLevel,
     cleanWeeks |-> 0, missedWeeks |-> 0, totalPoints |-> 0, isActive |-> TRUE,
     startingLevel |-> startingLevel, reactivatedAtWeek |-> 0]

\* the records of one logged week: days 1..count ticked, the next day unticked
WeekRecords(userId, week, count) ==
    [d \in 1..(count + 1) |->
        [userId |-> userId, week |-> week, dayOfWeek |-> d, isCompleted |-> d <= count]]

\* the POST /api/workouts requests a run explores, and the (userId, week,
\* dayOfWeek) triples they address
PostIds == {"p1", "p2"}
Triples == {<<"u1", 1, 1>>, <<"u1", 1, 2>>}
IdlePost ==
    [phase |-> "idle", triple |-> <<"u1", 1, 1>>, isCompleted |-> FALSE, id |-> 0]

\* nothing in flight, empty workout table, empty ApiService cache
InitServices ==
    /\ puts = {}
    /\ reported = {}
    /\ timers = {}
    /\ rows = {}
    /\ posts = [p \in PostIds |-> IdlePost]
    /\ lastWritten = [t \in Triples |-> {}]
    /\ serverData = 0
    /\ cache = {}
    /\ pendingGet = {}
    /\ mutation = "none"
    /\ completedVersion = 0
    /\ answer = [data |-> 0, fromCache |-> FALSE, completed |-> 0]

Init ==
    /\ \E sl \in StartingLevels : users = [u \in UserIds |-> NewUser(u, sl)]
    /\ workoutDays = <<>>
    /\ goals = {[id |-> g, userId |-> "u1", isCompleted |-> FALSE] : g \in GoalIds}
    /\ currentWeek = 0
    /\ recalculated = FALSE
    /\ dbUsers = users
    /\ InitServices

\* the calendar moves on without the participant logging anything; last is
\* the last calendar week explored
AdvanceWeekTo(last) ==
    /\ currentWeek < last
    /\ currentWeek' = currentWeek + 1
    /\ recalculated' = FALSE
    /\ UNCHANGED <<users, workoutDays, goals, sinkVars, storeVars, apiVars>>

AdvanceWeek == AdvanceWeekTo(MaxWeek)

\* a participant logs count workouts in the running week, then the week ends
LogWeekTo(u, count, last) ==
    /\ currentWeek >= 1
    /\ currentWeek < last
    /\ count > 0
    /\ workoutDays' = workoutDays \o WeekRecords(u, currentWeek, count)
    /\ currentWeek' = currentWeek + 1
    /\ recalculated' = FALSE
    /\ UNCHANGED <<users, goals, sinkVars, storeVars, apiVars>>

LogWeek(u, count) == LogWeekTo(u, count, MaxWeek)

\* WorkoutTracker.toggleWorkout + App.updateWorkoutDay: the tracker shows any
\* week of the challenge; count days of a week without records are ticked
LogDays(u, week, count) ==
    /\ count > 0
    /\ \A i \in DOMAIN workoutDays :
          ~(workoutDays[i].userId = u /\ workoutDays[i].week = week)
    /\ workoutDays' = workoutDays \o WeekRecords(u, week, count)
    /\ recalculated' = FALSE
    /\ UNCHANGED <<users, goals, currentWeek, sinkVars, storeVars, apiVars>>

\* App.updateGoal: the completion flag of a goal is set
updateGoal(g, done) ==
    /\ g \in goals
    /\ g.isCompleted # done
    /\ goals' = (goals \ {g}) \cup {[g EXCEPT !.isCompleted = done]}
    /\ recalculated' = FALSE
    /\ UNCHANGED <<users, workoutDays, currentWeek, sinkVars, storeVars, apiVars>>

\* App.recalculateUserConsistency
recalculateUserConsistency ==
    /\ users' = updateAllUsersConsistency(users, workoutDays, goals, currentWeek)
    /\ recalculated' = TRUE
    /\ UNCHANGED <<workoutDays, goals, currentWeek, sinkVars, storeVars, apiVars>>

\* admin action "reactivate": the checkpoint is set to the running week and
\* the participant is made active again
Reactivate(u) ==
    /\ ~users[u].isActive
    /\ users' = [users EXCEPT ![u].isActive = TRUE,
                              ![u].reactivatedAtWeek = currentWeek]
    /\ recalculated' = FALSE
    /\ UNCHANGED <<workoutDays, goals, currentWeek, sinkVars, storeVars, apiVars>>

Next ==
    \/ AdvanceWeek
    \/ \E u \in UserIds, count \in Counts : LogWeek(u, count)
    \/ recalculateUserConsistency

Spec == Init /\ [][Next]_vars

\* the same participants with goal completion
NextGoals ==
    \/ AdvanceWeek
    \/ \E u \in UserIds, count \in Counts : LogWeek(u, count)
    \/ \E g \in goals, done \in BOOLEAN : updateGoal(g, done)
    \/ recalculateUserConsistency

SpecGoals == Init /\ [][NextGoals]_vars

\* the same participants with the admin action "reactivate"
NextReactivate ==
    \/ AdvanceWeek
    \/ \E u \in UserIds, count \in Counts : LogWeek(u, count)
    \/ recalculateUserConsistency
    \/ \E u \in UserIds : Reactivate(u)

SpecReactivate == Init /\ [][NextReactivate]_vars

\* the weeks up to ShortWeek
NextShort ==
    \/ AdvanceWeekTo(ShortWeek)
    \/ \E u \in UserIds, count \in Counts : LogWeekTo(u, count, ShortWeek)
    \/ recalculateUserConsistency

SpecShort == Init /\ [][NextShort]_vars

\* the weeks up to ShortWeek with goal completion
NextPoints ==
    \/ AdvanceWeekTo(ShortWeek)
    \/ \E u \in UserIds, count \in Counts : LogWeekTo(u, count, ShortWeek)
    \/ \E g \in goals, done \in BOOLEAN : updateGoal(g, done)
    \/ recalculateUserConsistency

SpecPoints == Init /\ [][NextPoints]_vars

\* the weeks up to ShortWeek with the tracker open on the running or the
\* next week
NextTracker ==
    \/ AdvanceWeekTo(ShortWeek)
    \/ \E u \in UserIds, count \in Counts :
          \E week \in currentWeek..(currentWeek + 1) :
              week \in 1..ShortWeek /\ LogDays(u, week, count)
    \/ recalculateUserConsistency

SpecTracker == Init /\ [][NextTracker]_vars

\* participants without a special starting level, or with 5 as starting level
InitLong ==
    /\ Init
    /\ \A u \in UserIds : StartingLevelOf(users[u]) = 5

\* the weeks up to LongWeek
NextLong ==
    \/ AdvanceWeekTo(LongWeek)
    \/ \E u \in UserIds, count \in Counts : LogWeekTo(u, count, LongWeek)
    \/ recalculateUserConsistency

SpecLong == InitLong /\ [][NextLong]_vars

\* two participants, each with one goal, the goal of u2 completed
InitPair ==
    /\ \E sl \in [PairIds -> StartingLevels] :
          users = [u \in PairIds |-> NewUser(u, sl[u])]
    /\ workoutDays = <<>>
    /\ goals = {[id |-> "g1", userId |-> "u1", isCompleted |-> FALSE],
                [id |-> "g2", userId |-> "u2", isCompleted |-> TRUE]}
    /\ currentWeek = 0
    /\ recalculated = FALSE
    /\ dbUsers = users
    /\ InitServices

\* the weeks up to PairWeek, either participant logging
NextPair ==
    \/ AdvanceWeekTo(PairWeek)
    \/ \E u \in PairIds, count \in Counts : LogWeekTo(u, count, PairWeek)
    \/ recalculateUserConsistency

SpecPair == InitPair /\ [][NextPair]_vars

\* ------------------------------------------------------- snapshot sink
\* the comparison the triggered recalculation makes before it saves
SnapshotDiffers(originalUser, updatedUser) ==
    \/ originalUser.cleanWeeks # updatedUser.cleanWeeks
    \/ originalUser.missedWeeks # updatedUser.missedWeeks
    \/ originalUser.currentConsistencyLevel # updatedUser.currentConsistencyLevel
    \/ originalUser.totalPoints # updatedUser.totalPoints
    \/ originalUser.isActive # updatedUser.isActive

\* the comparison the recalculation after the data load makes
LoadedSnapshotDiffers(originalUser, updatedUser) ==
    \/ originalUser.cleanWeeks # updatedUser.cleanWeeks
    \/ originalUser.missedWeeks # updatedUser.missedWeeks
    \/ originalUser.currentConsistencyLevel # updatedUser.currentConsistencyLevel
    \/ originalUser.totalPoints # updatedUser.totalPoints

\* variant: the tier columns are written by a statement of their own, the
\* remaining columns by a later one
UpdatedRow_TierFirst(row, body) ==
    [row EXCEPT !.currentConsistencyLevel = body.currentConsistencyLevel,
                !.cleanWeeks = body.cleanWeeks]

\* the row PUT /api/users/:id leaves behind: one UPDATE statement sets every
\* column of the snapshot
UpdatedRow(row, body) ==
    [row EXCEPT !.currentConsistencyLevel = body.currentConsistencyLevel,
                !.cleanWeeks = body.cleanWeeks,
                !.missedWeeks = body.missedWeeks,
                !.totalPoints = body.totalPoints,
                !.isActive = body.isActive,
                !.startingLevel = body.startingLevel]

\* WorkoutTracker.toggleWorkout + App.updateWorkoutDay for one day: the record
\* is saved, replaced or appended in the local list, and the recalculation of
\* the render that handled the click is scheduled
updateWorkoutDay(u, week, day) ==
    LET same  == {i \in DOMAIN workoutDays :
                     /\ workoutDays[i].userId = u
                     /\ workoutDays[i].week = week
                     /\ workoutDays[i].dayOfWeek = day}
        saved == [userId |-> u, week |-> week, dayOfWeek |-> day,
                  isCompleted |-> IF same = {} THEN TRUE
                                  ELSE ~workoutDays[CHOOSE i \in same : TRUE].isCompleted]
    IN  /\ Cardinality(timers) < MaxTimers
        /\ workoutDays' = IF same = {} THEN Append(workoutDays, saved)
                          ELSE [i \in DOMAIN workoutDays |->
                                   IF i \in same THEN saved ELSE workoutDays[i]]
        /\ timers' = timers \cup {[workoutDays |-> workoutDays, goals |-> goals]}
        /\ recalculated' = FALSE
        /\ UNCHANGED <<users, goals, currentWeek, dbUsers, puts, reported,
                       storeVars, apiVars>>

\* the setTimeout callback: App.recalculateUserConsistency of the render that
\* scheduled it, with the saves it sends
recalculateFromClosure(t) ==
    LET updatedUsers == updateAllUsersConsistency(users, t.workoutDays, t.goals,
                                                  currentWeek)
        changed      == {u \in DOMAIN users : SnapshotDiffers(users[u], updatedUsers[u])}
    IN  /\ t \in timers
        /\ Cardinality(puts) < MaxPuts
        /\ users' = updatedUsers
        /\ puts' = puts \cup {[user |-> updatedUsers[u], path |-> "recalculate"] :
                                 u \in changed}
        /\ timers' = timers \ {t}
        /\ recalculated' = TRUE
        /\ UNCHANGED <<workoutDays, goals, currentWeek, dbUsers, reported,
                       storeVars, apiVars>>

\* App.loadData on a page load: the local state is replaced by the database's,
\* pending callbacks are gone, and the recalculation over the loaded data
\* sends its saves
loadData ==
    LET updatedUsers == updateAllUsersConsistency(dbUsers, workoutDays, goals,
                                                  currentWeek)
        changed      == {u \in DOMAIN dbUsers :
                            LoadedSnapshotDiffers(dbUsers[u], updatedUsers[u])}
    IN  /\ Cardinality(puts) < MaxPuts
        /\ users' = dbUsers
        /\ puts' = puts \cup {[user |-> updatedUsers[u], path |-> "load"] :
                                 u \in changed}
        /\ timers' = {}
        /\ recalculated' = FALSE
        /\ UNCHANGED <<workoutDays, goals, currentWeek, dbUsers, reported,
                       storeVars, apiVars>>

\* PUT /api/users/:id succeeds; the load path then puts the saved participant
\* into the local state
putUser(r) ==
    /\ r \in puts
    /\ dbUsers' = [dbUsers EXCEPT ![r.user.id] = UpdatedRow(@, r.user)]
    /\ puts' = puts \ {r}
    /\ users' = IF r.path = "load" THEN [users EXCEPT ![r.user.id] = r.user]
                ELSE users
    /\ recalculated' = (r.path # "load" /\ recalculated)
    /\ UNCHANGED <<workoutDays, goals, currentWeek, reported, timers,
                   storeVars, apiVars>>

\* variant: a rejected save drops the saves of the batch still in flight
putUserFails_AbortsBatch(r) ==
    /\ r \in puts
    /\ puts' = {}
    /\ reported' = IF r.path = "recalculate" THEN reported \cup {r.user.id}
                   ELSE reported
    /\ UNCHANGED <<users, workoutDays, goals, currentWeek, recalculated, dbUsers,
                   timers, storeVars, apiVars>>

\* apiService.updateUser rejects; the triggered recalculation logs the error
putUserFails(r) ==
    /\ r \in puts
    /\ puts' = puts \ {r}
    /\ reported' = IF r.path = "recalculate" THEN reported \cup {r.user.id}
                   ELSE reported
    /\ UNCHANGED <<users, workoutDays, goals, currentWeek, recalculated, dbUsers,
                   timers, storeVars, apiVars>>

\* the challenge starts
StartChallenge(last) ==
    /\ currentWeek = 0
    /\ AdvanceWeekTo(last)

\* a week of the participant ends; the callbacks (100 ms) and the saves of the
\* week have run by then
WeekEnds(u, count, last) ==
    /\ timers = {}
    /\ puts = {}
    /\ LogWeekTo(u, count, last)

\* the participant's own weeks up to SinkWeek, each logged, and the days
\* ToggleDays of the weeks gone by switched afterwards
NextSink ==
    \/ StartChallenge(SinkWeek)
    \/ \E u \in UserIds, count \in SinkCounts : WeekEnds(u, count, SinkWeek)
    \/ \E u \in UserIds, week \in 1..(currentWeek - 1), day \in ToggleDays :
          updateWorkoutDay(u, week, day)
    \/ \E t \in timers : recalculateFromClosure(t)
    \/ loadData
    \/ \E r \in puts : putUser(r)
    \/ \E r \in puts : putUserFails(r)

SpecSink == InitLong /\ [][NextSink]_vars

\* the participant ticks a day that is not ticked yet
TickDay(u, week, day) ==
    /\ \A i \in DOMAIN workoutDays :
          ~(/\ workoutDays[i].userId = u
            /\ workoutDays[i].week = week
            /\ workoutDays[i].dayOfWeek = day
            /\ workoutDays[i].isCompleted)
    /\ updateWorkoutDay(u, week, day)

\* the weeks up to FairWeek with days ticked afterwards; every save succeeds
NextEventual ==
    \/ StartChallenge(FairWeek)
    \/ \E u \in UserIds, count \in SinkCounts : WeekEnds(u, count, FairWeek)
    \/ \E u \in UserIds, week \in 1..(currentWeek - 1), day \in ToggleDays :
          TickDay(u, week, day)
    \/ \E t \in timers : recalculateFromClosure(t)
    \/ \E r \in puts : putUser(r)

\* a scheduled callback runs after its 100 ms and a request sent is answered
SpecEventual ==
    /\ Init
    /\ [][NextEventual]_vars
    /\ WF_vars(\E t \in timers : recalculateFromClosure(t))
    /\ WF_vars(\E r \in puts : putUser(r))

\* two participants without a special starting level
InitBatch ==
    /\ InitPair
    /\ \A u \in PairIds : users[u].startingLevel = 0

\* two participants up to BatchWeek: u1 logs every week and switches the last
\* day of the week before, u2 logs nothing; the toggles trigger the batch
\* recalculations
NextBatch ==
    \/ StartChallenge(BatchWeek)
    \/ \E u \in UserIds, count \in SinkCounts : WeekEnds(u, count, BatchWeek)
    \/ \E u \in UserIds, day \in ToggleDays :
          currentWeek > 1 /\ updateWorkoutDay(u, currentWeek - 1, day)
    \/ \E t \in timers : recalculateFromClosure(t)
    \/ \E r \in puts : putUser(r)
    \/ \E r \in puts : putUserFails(r)

SpecBatch == InitBatch /\ [][NextBatch]_vars

\* ------------------------------------------------------- workout store
\* uuidv4(): an id no row and no request being served carries
NewId ==
    CHOOSE n \in 1..(Cardinality(rows) + Cardinality(PostIds) + 1) :
        /\ \A r \in rows : r.id # n
        /\ \A p \in PostIds : posts[p].id # n
        /\ \A m \in 1..(n - 1) :
              \/ \E r \in rows : r.id = m
              \/ \E p \in PostIds : posts[p].id = m

\* POST /api/workouts arrives with its body
postWorkout(p, triple, isCompleted) ==
    /\ posts[p].phase \in {"idle", "done"}
    /\ posts' = [posts EXCEPT ![p] = [phase |-> "check", triple |-> triple,
                                      isCompleted |-> isCompleted, id |-> 0]]
    /\ UNCHANGED <<users, workoutDays, goals, currentWeek, recalculated,
                   sinkVars, rows, lastWritten, apiVars>>

\* the existence check: the id of the row of the triple, or a new one
checkExisting(p) ==
    LET existing == {r \in rows : r.triple = posts[p].triple}
    IN  /\ posts[p].phase = "check"
        /\ posts' = [posts EXCEPT ![p].phase = "write",
                                  ![p].id = IF existing = {} THEN NewId
                                            ELSE (CHOOSE r \in existing : TRUE).id]
        /\ UNCHANGED <<users, workoutDays, goals, currentWeek, recalculated,
                       sinkVars, rows, lastWritten, apiVars>>

\* variant: the table has its primary key only, no UNIQUE(user_id, week,
\* day_of_week)
upsertWorkout_PrimaryKeyOnly(p) ==
    LET row == [id |-> posts[p].id, triple |-> posts[p].triple,
                isCompleted |-> posts[p].isCompleted, notes |-> p]
    IN  /\ posts[p].phase = "write"
        /\ rows' = {r \in rows : r.id # row.id} \cup {row}
        /\ lastWritten' = [lastWritten EXCEPT ![row.triple] =
                              {[isCompleted |-> row.isCompleted, notes |-> row.notes]}]
        /\ posts' = [posts EXCEPT ![p].phase = "done"]
        /\ UNCHANGED <<users, workoutDays, goals, currentWeek, recalculated,
                       sinkVars, apiVars>>

\* INSERT OR REPLACE: the rows in conflict on the primary key or on
\* UNIQUE(user_id, week, day_of_week) are deleted, the new row is inserted
upsertWorkout(p) ==
    LET row == [id |-> posts[p].id, triple |-> posts[p].triple,
                isCompleted |-> posts[p].isCompleted, notes |-> p]
    IN  /\ posts[p].phase = "write"
        /\ rows' = {r \in rows : r.id # row.id /\ r.triple # row.triple} \cup {row}
        /\ lastWritten' = [lastWritten EXCEPT ![row.triple] =
                              {[isCompleted |-> row.isCompleted, notes |-> row.notes]}]
        /\ posts' = [posts EXCEPT ![p].phase = "done"]
        /\ UNCHANGED <<users, workoutDays, goals, currentWeek, recalculated,
                       sinkVars, apiVars>>

\* the requests PostIds served concurrently, one after the other per slot
NextStore ==
    \/ \E p \in PostIds, triple \in Triples, isCompleted \in BOOLEAN :
          postWorkout(p, triple, isCompleted)
    \/ \E p \in PostIds : checkExisting(p)
    \/ \E p \in PostIds : upsertWorkout(p)

SpecStore == Init /\ [][NextStore]_vars

\* --------------------------------------------------------- ApiService
\* fetchApi for a GET of the resource: answered from the cache entry within
\* its TTL, joined to the pending request, or sent to the server
getResource ==
    /\ IF cache # {}
       THEN /\ answer' = [data |-> (CHOOSE c \in cache : TRUE).data,
                          fromCache |-> TRUE, completed |-> completedVersion]
            /\ UNCHANGED pendingGet
       ELSE /\ pendingGet' = IF pendingGet # {} THEN pendingGet
                             ELSE {[data |-> -1]}
            /\ UNCHANGED answer
    /\ UNCHANGED <<users, workoutDays, goals, currentWeek, recalculated,
                   sinkVars, storeVars, serverData, cache, mutation,
                   completedVersion>>

\* the server reads the resource for the GET
serverGet ==
    /\ pendingGet = {[data |-> -1]}
    /\ pendingGet' = {[data |-> serverData]}
    /\ UNCHANGED <<users, workoutDays, goals, currentWeek, recalculated,
                   sinkVars, storeVars, serverData, cache, mutation,
                   completedVersion, answer>>

\* the response of the GET arrives: it is cached with the time of arrival
\* and the pending request is removed
getResponse ==
    /\ \E r \in pendingGet :
          /\ r.data >= 0
          /\ cache' = {[data |-> r.data]}
          /\ answer' = [data |-> r.data, fromCache |-> FALSE,
                        completed |-> completedVersion]
    /\ pendingGet' = {}
    /\ UNCHANGED <<users, workoutDays, goals, currentWeek, recalculated,
                   sinkVars, storeVars, serverData, mutation, completedVersion>>

\* CACHE_TTL has passed since the entry was stored
cacheExpires ==
    /\ cache # {}
    /\ cache' = {}
    /\ UNCHANGED <<users, workoutDays, goals, currentWeek, recalculated,
                   sinkVars, storeVars, serverData, pendingGet, mutation,
                   completedVersion, answer>>

\* fetchApi for a POST, PUT or DELETE on the resource: sent to the server
mutateResource ==
    /\ mutation = "none"
    /\ serverData < MaxVersion
    /\ mutation' = "sent"
    /\ UNCHANGED <<users, workoutDays, goals, currentWeek, recalculated,
                   sinkVars, storeVars, serverData, cache, pendingGet,
                   completedVersion, answer>>

\* the server applies the mutation
serverMutation ==
    /\ mutation = "sent"
    /\ serverData' = serverData + 1
    /\ mutation' = "applied"
    /\ UNCHANGED <<users, workoutDays, goals, currentWeek, recalculated,
                   sinkVars, storeVars, cache, pendingGet, completedVersion,
                   answer>>

\* the response of the mutation arrives: invalidateRelatedCaches deletes the
\* cache entries of the resource
mutationResponse ==
    /\ mutation = "applied"
    /\ cache' = {}
    /\ completedVersion' = serverData
    /\ mutation' = "none"
    /\ UNCHANGED <<users, workoutDays, goals, currentWeek, recalculated,
                   sinkVars, storeVars, serverData, pendingGet, answer>>

\* GETs and up to MaxVersion mutations of one resource
NextApi ==
    \/ getResource
    \/ serverGet
    \/ getResponse
    \/ cacheExpires
    \/ mutateResource
    \/ serverMutation
    \/ mutationResponse

SpecApi == Init /\ [][NextApi]_vars

\* ------------------------------------------------------------ properties
\* views of the replay of participant u over the current history
CompletedWeeks == 1..(currentWeek - 1)

\* replay states of simulateProgression: Replay(u)[n + 1] is the state after n weeks
Replay(u) == SimulationTrace(users[u], workoutDays, currentWeek - 1)

Statuses(u) == calculateAllWeekStatuses(users[u], workoutDays, currentWeek)

StintReplay(u) == StintTrace(users[u], workoutDays, currentWeek - 1)

Completed(u, w) == countCompletedWorkouts(u, workoutDays, w)

Ceiling(u) == StartingLevelOf(users[u])

SetMax(S) == CHOOSE x \in S : \A y \in S : y <= x

\* C1: a recalculation turns an active participant inactive exactly when the
\* replayed tier is 5 and the current tier-5 stint holds at least 2 misses
C1_EliminationLaw ==
    [][\A u \in UserIds :
         (recalculated' /\ users[u].isActive) =>
            (users'[u].isActive =
               ~(/\ simulateProgression(users[u], workoutDays, currentWeek) = 5
                 /\ calculateStintMissedWeeks(users[u], workoutDays, currentWeek) >= 2))]_vars

\* C2: the requirement recorded for every completed week is the requirement
\* of the tier that was simulated as active during that week
C2_RequiredByTier ==
    \A u \in UserIds :
        LET tr == Replay(u)
            st == Statuses(u)
        IN  \A w \in CompletedWeeks :
                st[w].requiredWorkouts = getRequiredWorkouts(tr[w].simulatedLevel)

\* C3: a week replayed at tier 3 requires 4 workouts: 3 workouts are a miss
\* and regress the tier, 4 or more are clean and keep tier 3
C3_TierThreeNeedsFour ==
    \A u \in UserIds :
        LET tr == Replay(u)
            st == Statuses(u)
        IN  \A w \in CompletedWeeks :
                tr[w].simulatedLevel = 3 =>
                    /\ Completed(u, w) = 3 =>
                          /\ ~st[w].isComplete
                          /\ tr[w + 1].simulatedLevel = Min(4, Ceiling(u))
                    /\ Completed(u, w) >= 4 =>
                          /\ st[w].isComplete
                          /\ tr[w + 1].simulatedLevel = 3

\* C4: getRequiredWorkouts gives 4 for tier 3, 4 for tier 4 and 5 for tier 5
C4_RequiredWorkouts ==
    \A t \in Levels \cup {users[u].currentConsistencyLevel : u \in UserIds} :
        getRequiredWorkouts(t) = (CASE t = 3 -> 4 [] t = 4 -> 4 [] t = 5 -> 5)

C4_Witness ==
    \E u \in UserIds : recalculated /\ users[u].currentConsistencyLevel = 3

\* C5: the count used for elimination is the number of misses of the current
\* tier-5 stint, not every miss of the history
C5_StintScopedCount ==
    \A u \in UserIds :
        EliminationCount(users[u], workoutDays, goals, currentWeek)
            = calculateStintMissedWeeks(users[u], workoutDays, currentWeek)

\* week w of the stint replay tr is a miss
StintMiss(u, tr, w) == Completed(u, w) < getRequiredWorkouts(tr[w].tier)

\* first week of the current tier-5 stint: the week after the last transition
\* that left tier 5 or landed on it
StintStart(tr) ==
    1 + SetMax({0} \cup {w \in CompletedWeeks :
                            /\ tr[w + 1].tier # tr[w].tier
                            /\ 5 \in {tr[w + 1].tier, tr[w].tier}})

Tier5MissesSince(u, c) ==
    LET tr == Replay(u)
        st == Statuses(u)
    IN  Cardinality({w \in CompletedWeeks :
                        w >= c /\ tr[w].simulatedLevel = 5 /\ ~st[w].isComplete})

\* C7: a reactivated participant stays active at every recalculation until
\* two weeks are missed at tier 5 at or after the checkpoint
C7_ReactivatedStaysActive ==
    [][\A u \in UserIds :
         (/\ recalculated'
          /\ users[u].isActive
          /\ users[u].reactivatedAtWeek > 0
          /\ Tier5MissesSince(u, users[u].reactivatedAtWeek) < 2)
            => users'[u].isActive]_vars

\* C8: a second recalculation over unchanged inputs changes nothing
C8_Idempotent ==
    [][(recalculated /\ recalculated') =>
         \A u \in UserIds :
            /\ users'[u].currentConsistencyLevel = users[u].currentConsistencyLevel
            /\ users'[u].cleanWeeks = users[u].cleanWeeks
            /\ users'[u].missedWeeks = users[u].missedWeeks
            /\ users'[u].totalPoints = users[u].totalPoints
            /\ users'[u].isActive = users[u].isActive]_vars

\* week w of the replay tr ended with a progression
ProgressedAt(tr, w) == tr[w + 1].simulatedLevel = tr[w].simulatedLevel - 1

\* the last week before w that was missed or ended with a progression
LastBreak(tr, st, w) ==
    SetMax({0} \cup {j \in 1..(w - 1) :
                        \/ ~st[j].isComplete
                        \/ tr[j + 1].simulatedLevel < tr[j].simulatedLevel})

\* C9: the tier drops by exactly 1 at the end of week w iff w is clean, the
\* tier is above 3 and w is the third clean week in a row since the last miss
\* or progression; the streak is then 0 again
C9_ProgressionLaw ==
    \A u \in UserIds :
        LET tr == Replay(u)
            st == Statuses(u)
        IN  \A w \in CompletedWeeks :
                /\ ProgressedAt(tr, w) <=>
                      (/\ st[w].isComplete
                       /\ tr[w].simulatedLevel > 3
                       /\ w - LastBreak(tr, st, w) = 3)
                /\ tr[w + 1].simulatedLevel >= tr[w].simulatedLevel - 1
                /\ ProgressedAt(tr, w) => tr[w + 1].consecutiveClean = 0

C9_Witness ==
    \E u \in UserIds :
        LET tr == Replay(u)
            st == Statuses(u)
        IN  \E w \in CompletedWeeks :
                /\ ProgressedAt(tr, w)
                /\ LastBreak(tr, st, w) > 0
                /\ tr[w + 1].simulatedLevel = 3

\* C10: a missed week at tier T < 5 moves the tier to min(T + 1, ceiling); a
\* missed week at tier 5 leaves it at 5
C10_RegressionLaw ==
    \A u \in UserIds :
        LET tr == Replay(u)
            st == Statuses(u)
        IN  \A w \in CompletedWeeks :
                ~st[w].isComplete =>
                    LET T == tr[w].simulatedLevel
                    IN  tr[w + 1].simulatedLevel
                            = (IF T < 5 THEN Min(T + 1, Ceiling(u)) ELSE 5)

C10_Witness ==
    \E u \in UserIds :
        LET tr == Replay(u)
            st == Statuses(u)
        IN  \E w \in CompletedWeeks :
                /\ ~st[w].isComplete
                /\ tr[w].simulatedLevel = 4
                /\ tr[w + 1].simulatedLevel = 5

\* C11: the simulated tier after every week of the replay is at most the
\* ceiling tier; progression may take it below the ceiling
C11_CeilingLaw ==
    \A u \in UserIds :
        LET tr == Replay(u)
        IN  \A i \in 1..Len(tr) : tr[i].simulatedLevel <= Ceiling(u)

\* ceiling 4 and three clean weeks of 4 workouts end at tier 3
C11_Witness ==
    \E u \in UserIds :
        /\ Ceiling(u) = 4
        /\ currentWeek = 4
        /\ \A w \in 1..3 : Completed(u, w) = 4
        /\ Replay(u)[4].simulatedLevel = 3

\* C12: every tier held during the replay and the tier of the stored
\* snapshot are in {3, 4, 5}
C12_TierRange ==
    \A u \in UserIds :
        LET tr == Replay(u)
        IN  /\ \A i \in 1..Len(tr) : tr[i].simulatedLevel \in Levels
            /\ users[u].currentConsistencyLevel \in Levels
            /\ simulateProgression(users[u], workoutDays, currentWeek) \in Levels

\* a snapshot written at tier 3 after further clean weeks at tier 3
C12_Witness ==
    \E u \in UserIds :
        LET tr == Replay(u)
        IN  /\ recalculated
            /\ users[u].currentConsistencyLevel = 3
            /\ currentWeek >= 5
            /\ \A w \in (currentWeek - 3)..(currentWeek - 1) :
                   /\ tr[w].simulatedLevel = 3
                   /\ Completed(u, w) >= 3

\* C13: every update has totalPoints = cleanWeeks + completed goals of the
\* participant, cleanWeeks being the clean weeks of the same replay, and a
\* recalculation writes such a snapshot for every active participant
C13_PointsLaw ==
    [][\A u \in UserIds :
         LET done   == CompletedGoalsOf(goals, u)
             update == calculateConsistencyUpdate(users[u], workoutDays, currentWeek, done)
         IN  /\ update.cleanWeeks = CountStatuses(Statuses(u), TRUE)
             /\ update.totalPoints = update.cleanWeeks + done
             /\ (recalculated' /\ users[u].isActive) =>
                    /\ users'[u].cleanWeeks = update.cleanWeeks
                    /\ users'[u].totalPoints = users'[u].cleanWeeks + done]_vars

\* a snapshot with clean weeks and a completed goal has just been written
C13_Witness ==
    \E u \in UserIds :
        /\ recalculated
        /\ users[u].isActive
        /\ CompletedGoalsOf(goals, u) = 1
        /\ users[u].cleanWeeks >= 2
        /\ users[u].totalPoints = users[u].cleanWeeks + 1

\* the records of the weeks before the running week
PastRecords == SelectSeq(workoutDays, LAMBDA w : w.week < currentWeek)

\* C14: the status list has max(0, currentWeek - 1) entries, for the weeks
\* 1..currentWeek-1 in ascending order, and records of the running week and
\* of later weeks change neither the tier, the statuses nor the counters
C14_Coverage ==
    \A u \in UserIds :
        LET st == Statuses(u)
        IN  /\ Len(st) = (IF currentWeek - 1 > 0 THEN currentWeek - 1 ELSE 0)
            /\ \A i \in 1..Len(st) : st[i].week = i
            /\ st = calculateAllWeekStatuses(users[u], PastRecords, currentWeek)
            /\ simulateProgression(users[u], workoutDays, currentWeek)
                  = simulateProgression(users[u], PastRecords, currentWeek)
            /\ calculateConsistencyMetrics(users[u], workoutDays, currentWeek)
                  = calculateConsistencyMetrics(users[u], PastRecords, currentWeek)

\* two weeks are completed, one of them clean, and the running week already
\* holds 5 workouts
C14_Witness ==
    \E u \in UserIds :
        /\ currentWeek = 3
        /\ Completed(u, currentWeek) = 5
        /\ Completed(u, 1) = 5
        /\ Completed(u, 2) = 0
        /\ Len(Statuses(u)) = 2

\* current weeks without a completed week
EarlyWeeks == {-1, 0, 1}

\* C15: for a current week of at most 1 the status list is empty, cleanWeeks
\* and missedWeeks are 0, the tier is the ceiling and the orchestrator
\* eliminates nobody, whatever the history and the stored snapshot
C15_NoCompletedWeek ==
    \A u \in UserIds :
        /\ \A cw \in EarlyWeeks :
              /\ calculateAllWeekStatuses(users[u], workoutDays, cw) = <<>>
              /\ calculateConsistencyMetrics(users[u], workoutDays, cw)
                    = [cleanWeeks |-> 0, missedWeeks |-> 0]
              /\ simulateProgression(users[u], workoutDays, cw) = Ceiling(u)
              /\ UpdatedUser(users[u], workoutDays, goals, cw).isActive
                    = users[u].isActive
        /\ (currentWeek <= 1 /\ recalculated) =>
              /\ users[u].isActive
              /\ users[u].currentConsistencyLevel = Ceiling(u)
              /\ users[u].cleanWeeks = 0
              /\ users[u].missedWeeks = 0

\* a recalculation in week 1 with workouts already logged for weeks 1 and 2
C15_Witness ==
    \E u \in UserIds :
        /\ currentWeek = 1
        /\ recalculated
        /\ Completed(u, 1) = 3
        /\ Completed(u, 2) = 5
        /\ users[u].currentConsistencyLevel = 4

\* the participant with another stored snapshot
WithSnapshot(user, level, n) ==
    [user EXCEPT !.currentConsistencyLevel = level, !.cleanWeeks = n,
                 !.missedWeeks = n, !.totalPoints = n]

\* C16: the tier, the week statuses, cleanWeeks and missedWeeks depend on
\* the ceiling, the history and the current week only: they are the same for
\* every stored snapshot of the participant
C16_SnapshotIndependent ==
    \A u \in UserIds :
        LET st == Statuses(u)
            t  == simulateProgression(users[u], workoutDays, currentWeek)
            m  == calculateConsistencyMetrics(users[u], workoutDays, currentWeek)
        IN  \A level \in Levels, n \in {0, 7} :
                LET other == WithSnapshot(users[u], level, n)
                IN  /\ calculateAllWeekStatuses(other, workoutDays, currentWeek) = st
                    /\ simulateProgression(other, workoutDays, currentWeek) = t
                    /\ calculateConsistencyMetrics(other, workoutDays, currentWeek) = m

\* the stored snapshot differs from a fresh record in tier, clean weeks and
\* points
C16_Witness ==
    \E u \in UserIds :
        /\ users[u].currentConsistencyLevel # Ceiling(u)
        /\ users[u].cleanWeeks = 3
        /\ users[u].totalPoints = 4
        /\ currentWeek = 4

\* C17: a recalculation that eliminates a participant writes the tier, the
\* counters and the points it computed, and a recalculation returns the
\* record of an inactive participant unchanged
C17_EliminatedFrozen ==
    [][recalculated' =>
         /\ DOMAIN users' = DOMAIN users
         /\ \A u \in UserIds :
               LET update == calculateConsistencyUpdate(users[u], workoutDays, currentWeek,
                                                        CompletedGoalsOf(goals, u))
               IN  /\ (users[u].isActive /\ ~users'[u].isActive) =>
                          users'[u] = [users[u] EXCEPT
                                          !.isActive = FALSE,
                                          !.currentConsistencyLevel = update.newConsistencyLevel,
                                          !.cleanWeeks = update.cleanWeeks,
                                          !.missedWeeks = update.missedWeeks,
                                          !.totalPoints = update.totalPoints]
                   /\ ~users[u].isActive => users'[u] = users[u]]_vars

\* an eliminated participant whose counters are older than the history and
\* whose goal was completed after the elimination
C17_Witness ==
    \E u \in UserIds :
        /\ recalculated
        /\ ~users[u].isActive
        /\ users[u].missedWeeks >= 2
        /\ users[u].cleanWeeks + users[u].missedWeeks < currentWeek - 1
        /\ CompletedGoalsOf(goals, u) = 1
        /\ users[u].totalPoints = users[u].cleanWeeks

\* number of clean weeks the history of u starts with
LeadingClean(st) ==
    SetMax({0} \cup {k \in 1..Len(st) : \A j \in 1..k : st[j].isComplete})

\* tier after n clean weeks from tier 5
TierAfterClean(n) == IF n < 3 THEN 5 ELSE IF n < 6 THEN 4 ELSE 3

\* C18: with ceiling 5 and the first n completed weeks all clean the tier is
\* 5 for n < 3, 4 for 3 <= n < 6 and 3 for n >= 6, with cleanWeeks = n and
\* missedWeeks = 0; the tier never drops by more than one level in a week
C18_MultipleTransitions ==
    \A u \in UserIds :
        LET tr == Replay(u)
            n  == LeadingClean(Statuses(u))
        IN  /\ Ceiling(u) = 5 =>
                  /\ \A k \in 0..n : tr[k + 1].simulatedLevel = TierAfterClean(k)
                  /\ simulateProgression(users[u], workoutDays, n + 1) = TierAfterClean(n)
                  /\ calculateConsistencyMetrics(users[u], workoutDays, n + 1)
                        = [cleanWeeks |-> n, missedWeeks |-> 0]
            /\ \A w \in CompletedWeeks :
                  tr[w + 1].simulatedLevel >= tr[w].simulatedLevel - 1

\* history [5,5,5,4,4,4] recalculated in week 7
C18_Witness ==
    \E u \in UserIds :
        /\ currentWeek = 7
        /\ recalculated
        /\ \A w \in 1..3 : Completed(u, w) = 5
        /\ \A w \in 4..6 : Completed(u, w) = 4
        /\ users[u].currentConsistencyLevel = 3
        /\ users[u].cleanWeeks = 6
        /\ users[u].missedWeeks = 0

Reverse(q) == [i \in 1..Len(q) |-> q[Len(q) + 1 - i]]

\* q with its first k elements moved to the end
Rotate(q, k) == [i \in 1..Len(q) |-> q[((i + k - 1) % Len(q)) + 1]]

\* the elements at odd positions followed by those at even positions
Riffle(q) ==
    [i \in 1..Len(q) |->
        IF i <= (Len(q) + 1) \div 2 THEN q[2 * i - 1]
        ELSE q[2 * (i - (Len(q) + 1) \div 2)]]

\* rearrangements of the records supplied to the engine
Rearranged(q) ==
    {Reverse(q), Riffle(q), Reverse(Riffle(q))}
        \cup {Rotate(q, k) : k \in {1, Len(q) \div 2}}

\* C19: the tier, the week statuses, the counters and the elimination
\* verdict are the same for every order of the same workout records
C19_OrderIndependent ==
    \A u \in UserIds :
        LET st     == Statuses(u)
            update == calculateConsistencyUpdate(users[u], workoutDays, currentWeek, 0)
        IN  \A wds \in Rearranged(workoutDays) :
                LET other == calculateConsistencyUpdate(users[u], wds, currentWeek, 0)
                IN  /\ calculateAllWeekStatuses(users[u], wds, currentWeek) = st
                    /\ other = update
                    /\ shouldBeEliminated(users[u], other.missedWeeks)
                          = shouldBeEliminated(users[u], update.missedWeeks)

\* three completed weeks with workouts, one of them missed, in an order
\* that differs from each rearrangement
C19_Witness ==
    \E u \in UserIds :
        /\ currentWeek = 4
        /\ Completed(u, 1) = 5
        /\ Completed(u, 2) = 3
        /\ Completed(u, 3) = 4
        /\ workoutDays \notin Rearranged(workoutDays)

\* the records and the goals of participant a alone
OwnRecords(a) == SelectSeq(workoutDays, LAMBDA w : w.userId = a)

OwnGoals(a) == {g \in goals : g.userId = a}

\* C20: the snapshot a batch recalculation produces for a participant is the
\* one produced when the participant is recalculated alone, whatever the
\* records, the histories and the goals of the other participants
C20_Independent ==
    \A a \in DOMAIN users :
        updateAllUsersConsistency(users, workoutDays, goals, currentWeek)[a]
            = updateAllUsersConsistency([x \in {a} |-> users[a]], OwnRecords(a),
                                        OwnGoals(a), currentWeek)[a]

\* u1 logged week 1 and u2 week 2; u2 was eliminated and u1 was not
C20_Witness ==
    /\ DOMAIN users = PairIds
    /\ currentWeek = 3
    /\ recalculated
    /\ users["u1"].isActive
    /\ users["u1"].cleanWeeks = 1
    /\ ~users["u2"].isActive
    /\ users["u2"].totalPoints = 1
    /\ countCompletedWorkouts("u1", workoutDays, 1) = 5
    /\ countCompletedWorkouts("u2", workoutDays, 2) = 4

ExtraRecords(u, w, k) ==
    [d \in 1..k |-> [userId |-> u, week |-> w, dayOfWeek |-> 7 + d, isCompleted |-> TRUE]]

\* the history with k further completed workouts of u in every week of ws
RECURSIVE Boosted(_, _, _, _)
Boosted(wds, u, ws, k) ==
    IF ws = {} THEN wds
    ELSE LET w == CHOOSE x \in ws : TRUE
         IN  Boosted(wds \o ExtraRecords(u, w, k), u, ws \ {w}, k)

\* C28: further completed workouts in completed weeks never lower
\* cleanWeeks, never raise missedWeeks and never raise the final tier
C28_MoreNeverHurts ==
    \A u \in UserIds :
        LET m == calculateConsistencyMetrics(users[u], workoutDays, currentWeek)
            t == simulateProgression(users[u], workoutDays, currentWeek)
        IN  \A ws \in SUBSET CompletedWeeks, k \in {1, 2, 5} :
                LET more == Boosted(workoutDays, u, ws, k)
                    mm   == calculateConsistencyMetrics(users[u], more, currentWeek)
                IN  /\ mm.cleanWeeks >= m.cleanWeeks
                    /\ mm.missedWeeks <= m.missedWeeks
                    /\ simulateProgression(users[u], more, currentWeek) <= t

\* ceiling 4 and history [4,4,3]: one more workout in week 3 turns the miss
\* into the third clean week and the final tier 4 into 3
C28_Witness ==
    \E u \in UserIds :
        /\ Ceiling(u) = 4
        /\ currentWeek = 4
        /\ Completed(u, 1) = 4 /\ Completed(u, 2) = 4 /\ Completed(u, 3) = 3
        /\ simulateProgression(users[u], workoutDays, currentWeek) = 4
        /\ simulateProgression(users[u], Boosted(workoutDays, u, {3}, 1), currentWeek) = 3

\* C29: a participant with ceiling 3 or 4 is never marked inactive: neither
\* the replayed nor the stored tier reaches 5
C29_LowCeilingStaysActive ==
    \A u \in UserIds :
        Ceiling(u) \in {3, 4} =>
            /\ users[u].isActive
            /\ users[u].currentConsistencyLevel <= Ceiling(u)
            /\ UpdatedUser(users[u], workoutDays, goals, currentWeek).isActive

\* ceiling 4, three missed weeks on record, recalculated and still active
C29_Witness ==
    \E u \in UserIds :
        /\ Ceiling(u) = 4
        /\ recalculated
        /\ users[u].missedWeeks >= 3
        /\ users[u].currentConsistencyLevel = 4
        /\ users[u].isActive

\* C30: cleanWeeks + missedWeeks = max(0, currentWeek - 1), cleanWeeks being
\* the number of statuses marked complete and missedWeeks the number of the
\* others
C30_CountersPartition ==
    \A u \in UserIds :
        LET st == Statuses(u)
            m  == calculateConsistencyMetrics(users[u], workoutDays, currentWeek)
        IN  /\ m.cleanWeeks + m.missedWeeks
                  = (IF currentWeek - 1 > 0 THEN currentWeek - 1 ELSE 0)
            /\ m.cleanWeeks = Cardinality({i \in DOMAIN st : st[i].isComplete})
            /\ m.missedWeeks = Cardinality({i \in DOMAIN st : ~st[i].isComplete})

\* a clean week, a week with too few workouts and a week with none
C30_Witness ==
    \E u \in UserIds :
        LET st == Statuses(u)
        IN  /\ currentWeek = 4
            /\ st[1].isComplete
            /\ ~st[2].isComplete /\ st[2].completedWorkouts = 3
            /\ ~st[3].isComplete /\ st[3].completedWorkouts = 0

\* the five fields of a participant's snapshot
Snapshot(user) ==
    <<user.currentConsistencyLevel, user.cleanWeeks, user.missedWeeks,
      user.totalPoints, user.isActive>>

\* C21: every change of a participant's row in the users table replaces the
\* row, whole, by the snapshot of one save in flight; a read before the change
\* sees the old snapshot, a read after it the new one, and no state in between
\* mixes fields of the two
C21_WholeSnapshots ==
    [][\A u \in DOMAIN dbUsers :
          \/ dbUsers'[u] = dbUsers[u]
          \/ \E r \in puts : /\ r.user.id = u
                             /\ Snapshot(dbUsers'[u]) = Snapshot(r.user)]_vars

\* a save has replaced the starting snapshot and another save is in flight
\* whose clean weeks and points both differ from the row
C21_Witness ==
    \E r \in puts :
        LET row == dbUsers[r.user.id]
        IN  /\ Snapshot(row) # Snapshot(NewUser(row.id, row.startingLevel))
            /\ r.user.cleanWeeks # row.cleanWeeks
            /\ r.user.totalPoints # row.totalPoints

C23_EmitsOnAnyDifference ==
    [][/\ \A t \in timers : recalculateFromClosure(t) =>
              \A u \in DOMAIN users :
                  Snapshot(users'[u]) # Snapshot(users[u]) =>
                      \E r \in puts' : r.user = users'[u]
       /\ loadData =>
              \A u \in DOMAIN dbUsers :
                  LET updatedUser == UpdatedUser(dbUsers[u], workoutDays, goals,
                                                 currentWeek)
                  IN  Snapshot(updatedUser) # Snapshot(dbUsers[u]) =>
                          \E r \in puts' : r.user = updatedUser]_vars

\* C24: whenever a toggle has been saved and its recalculation is scheduled,
\* the persisted snapshot of every participant eventually equals what the
\* engine returns for the history with that toggle, with no user action
\* needed in between
C24_EventuallyConsistent ==
    (timers # {}) ~>
        (\A u \in DOMAIN dbUsers :
            Snapshot(dbUsers[u]) =
                Snapshot(UpdatedUser(dbUsers[u], workoutDays, goals, currentWeek)))

C26_NoStaleCacheAnswer ==
    answer.fromCache => answer.data >= answer.completed

====
